---- MODULE Spec2Model ----
(***************************************************************************)
(* gojsonflatten: flattening of nested JSON-like values (flatten.go).      *)
(*                                                                         *)
(* Text (Go string) is a sequence of one-character strings, so that        *)
(* concatenation, prefixes and key collisions are those of the code.       *)
(* A Go interface{} value is a tagged record:                              *)
(*   map[string]interface{}  [t |-> "map", m |-> function Text -> Value]   *)
(*   []interface{}           [t |-> "seq", s |-> sequence of Value]        *)
(*   anything else           [t |-> "scalar", v |-> number]                *)
(* Go's `range` over a map visits the keys in an unspecified order: every  *)
(* operator that contains such a loop yields the SET of its outcomes.      *)
(***************************************************************************)
EXTENDS Integers, Sequences, FiniteSets, TLC

\* ------------------------------------------------------------- bounds
\* Largest number of nodes (containers and scalars, root included) of an input.
MaxNodes == 4
\* Longest input text handed to the string front end.
MaxTextLen == 3
\* Largest positive depth argument; negative depths go down to -MaxNegDepth.
MaxDepthArg == 3
MaxNegDepth == 2

\* ------------------------------------------------------------- values
Nil == "nil"
ErrNotValidInput == "not a valid input: map or slice"
ErrNotValidJsonInput == "not a valid input, must be a map"
\* Any error of encoding/json's decoder (it is not one of the two above).
ErrJsonSyntax == "json: syntax error"

EmptyFn == [x \in {} |-> 0]

MapVal(f) == [t |-> "map", m |-> f]
SeqVal(q) == [t |-> "seq", s |-> q]
ScalarVal(n) == [t |-> "scalar", v |-> n]

IsMap(x) == x.t = "map"
IsSlice(x) == x.t = "seq"

SeparatorStyle(b, m, a) == [Before |-> b, Middle |-> m, After |-> a]
DotStyle == SeparatorStyle(<<>>, <<".">>, <<>>)
PathStyle == SeparatorStyle(<<>>, <<"/">>, <<>>)
RailsStyle == SeparatorStyle(<<"[">>, <<>>, <<"]">>)
UnderscoreStyle == SeparatorStyle(<<>>, <<"_">>, <<>>)

\* flatMap[k] = v of Go: insert or overwrite.
Put(f, k, v) == [x \in (DOMAIN f) \cup {k} |-> IF x = k THEN v ELSE f[x]]

\* strconv.Itoa for i >= 0.
Digit(d) == <<"0", "1", "2", "3", "4", "5", "6", "7", "8", "9">>[d + 1]
RECURSIVE Itoa(_)
Itoa(i) == IF i < 10 THEN <<Digit(i)>> ELSE Itoa(i \div 10) \o <<Digit(i % 10)>>

\* ------------------------------------------------------------- enkey
\* enkey without its top-level case: the first segment is decorated like the others.
enkey_alwaysNested(top, prefix, subKey, style) ==
    prefix \o style.Before \o style.Middle \o subKey \o style.After

enkey(top, prefix, subKey, style) ==
    IF top
    THEN prefix \o subKey
    ELSE prefix \o style.Before \o style.Middle \o subKey \o style.After

\* ------------------------------------------------------------- flatten
\* An outcome of flatten / assign: the flat map as the call leaves it, and the error.
Outcome(f, e) == [flatMap |-> f, err |-> e]

RECURSIVE flatten(_, _, _, _, _, _, _)
RECURSIVE assign(_, _, _, _, _, _)
RECURSIVE rangeMap(_, _, _, _, _, _, _, _)
RECURSIVE rangeSlice(_, _, _, _, _, _, _, _)

\* assign descending into maps only: a slice is stored like a scalar.
assign_mapsOnly(flatMap, newKey, v, style, depth, keepArrays) ==
    IF IsMap(v)
    THEN flatten(FALSE, flatMap, v, newKey, style, depth - 1, keepArrays)
    ELSE {Outcome(Put(flatMap, newKey, v), Nil)}

\* The closure `assign` of flatten (it captures flatMap, style, depth, keepArrays).
assign(flatMap, newKey, v, style, depth, keepArrays) ==
    IF IsMap(v) \/ IsSlice(v)
    THEN flatten(FALSE, flatMap, v, newKey, style, depth - 1, keepArrays)
    ELSE {Outcome(Put(flatMap, newKey, v), Nil)}

\* `for k, v := range nested` over a map: the keys of todo are still to be visited,
\* in any order; the error assign returns is dropped.
rangeMap(top, flatMap, nested, todo, prefix, style, depth, keepArrays) ==
    IF todo = {}
    THEN {flatMap}
    ELSE UNION { UNION { rangeMap(top, o.flatMap, nested, todo \ {k}, prefix, style,
                                  depth, keepArrays)
                         : o \in assign(flatMap, enkey(top, prefix, k, style), nested[k],
                                        style, depth, keepArrays) }
                 : k \in todo }

\* `for i, v := range nested` over a slice, from the element at Go index i - 1 on.
rangeSlice(top, flatMap, nested, i, prefix, style, depth, keepArrays) ==
    IF i > Len(nested)
    THEN {flatMap}
    ELSE UNION { rangeSlice(top, o.flatMap, nested, i + 1, prefix, style, depth,
                            keepArrays)
                 : o \in assign(flatMap, enkey(top, prefix, Itoa(i - 1), style),
                                nested[i], style, depth, keepArrays) }

\* flatten with the type switch ahead of the depth check.
flatten_typeFirst(top, flatMap, nested, prefix, style, depth, keepArrays) ==
    IF ~(IsMap(nested) \/ IsSlice(nested))
    THEN {Outcome(flatMap, ErrNotValidInput)}
    ELSE IF depth = 0
    THEN {Outcome(Put(flatMap, prefix, nested), Nil)}
    ELSE IF IsMap(nested)
    THEN { Outcome(f, Nil)
           : f \in rangeMap(top, flatMap, nested.m, DOMAIN nested.m, prefix, style,
                            depth, keepArrays) }
    ELSE IF ~keepArrays
    THEN { Outcome(f, Nil)
           : f \in rangeSlice(top, flatMap, nested.s, 1, prefix, style, depth,
                              keepArrays) }
    ELSE {Outcome(Put(flatMap, prefix, nested), Nil)}

\* flatten with a type switch that has no case for maps.
flatten_noMapCase(top, flatMap, nested, prefix, style, depth, keepArrays) ==
    IF depth = 0
    THEN {Outcome(Put(flatMap, prefix, nested), Nil)}
    ELSE IF IsSlice(nested)
    THEN IF ~keepArrays
         THEN { Outcome(f, Nil)
                : f \in rangeSlice(top, flatMap, nested.s, 1, prefix, style, depth,
                                   keepArrays) }
         ELSE {Outcome(Put(flatMap, prefix, nested), Nil)}
    ELSE {Outcome(flatMap, ErrNotValidInput)}

flatten(top, flatMap, nested, prefix, style, depth, keepArrays) ==
    IF depth = 0
    THEN {Outcome(Put(flatMap, prefix, nested), Nil)}
    ELSE IF IsMap(nested)
    THEN { Outcome(f, Nil)
           : f \in rangeMap(top, flatMap, nested.m, DOMAIN nested.m, prefix, style,
                            depth, keepArrays) }
    ELSE IF IsSlice(nested)
    THEN IF ~keepArrays
         THEN { Outcome(f, Nil)
                : f \in rangeSlice(top, flatMap, nested.s, 1, prefix, style, depth,
                                   keepArrays) }
         ELSE {Outcome(Put(flatMap, prefix, nested), Nil)}
    ELSE {Outcome(flatMap, ErrNotValidInput)}

\* ------------------------------------------------------------- flattenInternal
\* A returned Go map: nil, or the map with the entries m.
NilMap == [nil |-> TRUE, m |-> EmptyFn]
GoMap(f) == [nil |-> FALSE, m |-> f]
Return(m, e) == [map |-> m, err |-> e]

\* Lines 63-67: what flattenInternal returns for an outcome of its call of flatten.
flattenReturn(o) ==
    IF o.err # Nil THEN Return(NilMap, o.err) ELSE Return(GoMap(o.flatMap), Nil)

\* flattenInternal without the increment of a positive depth.
flattenInternal_noIncrement(nested, prefix, style, depth, preserveArray) ==
    IF depth = 0
    THEN {Return(GoMap(nested.m), Nil)}
    ELSE { flattenReturn(o)
           : o \in flatten(TRUE, EmptyFn, nested, prefix, style, depth, preserveArray) }

\* nested is a map[string]interface{}: a Value with t = "map".
flattenInternal(nested, prefix, style, depth, preserveArray) ==
    IF depth = 0
    THEN {Return(GoMap(nested.m), Nil)}
    ELSE LET d == IF depth > 0 THEN depth + 1 ELSE depth
         IN  { flattenReturn(o)
               : o \in flatten(TRUE, EmptyFn, nested, prefix, style, d, preserveArray) }

Flatten(nested, prefix, style, depth) ==
    flattenInternal(nested, prefix, style, depth, FALSE)

FlattenNoArray(nested, prefix, style, depth) ==
    flattenInternal(nested, prefix, style, depth, TRUE)

\* ------------------------------------------------------------- the string front end
\* \s of Go's regexp (RE2): [\t\n\f\r ].
RegexpSpace == {" ", "\t", "\n", "\f", "\r"}
\* JSON's insignificant whitespace (encoding/json): space, \t, \n, \r.
JsonSpace == {" ", "\t", "\n", "\r"}

\* The pattern without its anchor: a brace anywhere matches.
isJsonMap_unanchored(s) == \E i \in 1..Len(s) : s[i] = "{"

\* isJsonMap.MatchString(s) for the pattern ^\s*\{
isJsonMap(s) ==
    \E i \in 1..Len(s) : s[i] = "{" /\ \A j \in 1..(i - 1) : s[j] \in RegexpSpace

\* The characters of the modelled input texts. No text over them holds a quote, so
\* the only JSON objects among them are the empty ones: ws { ws } ws.
TextChars == {" ", "\f", "{", "}", "[", "4"}

\* json.Unmarshal([]byte(s), &nested) with nested a map[string]interface{}, for a
\* text over TextChars: the decoded map, or the decoder's error.
Unmarshal(s) ==
    IF \E i, j \in 1..Len(s) :
          /\ i < j /\ s[i] = "{" /\ s[j] = "}"
          /\ \A k \in 1..Len(s) : k \notin {i, j} => s[k] \in JsonSpace
    THEN [v |-> MapVal(EmptyFn), err |-> Nil]
    ELSE [v |-> MapVal(EmptyFn), err |-> ErrJsonSyntax]

\* json.Marshal(&flatmap) of a map without entries, the only one Unmarshal of a text
\* over TextChars leads to: {} (also for a nil map's pointer: null is not reached).
Marshal(m) == [bytes |-> <<"{", "}">>, err |-> Nil]

StringReturn(s, e, c) == [str |-> s, err |-> e, calls |-> c]

flattenStringInternal(nestedString, prefix, style, depth, preserveArray) ==
    IF ~isJsonMap(nestedString)
    THEN {StringReturn(<<>>, ErrNotValidJsonInput, {})}
    ELSE LET dec == Unmarshal(nestedString)
         IN  IF dec.err # Nil
             THEN {StringReturn(<<>>, dec.err, {"Unmarshal"})}
             ELSE { IF r.err # Nil
                    THEN StringReturn(<<>>, r.err, {"Unmarshal", "flattenInternal"})
                    ELSE LET enc == Marshal(r.map)
                         IN  IF enc.err # Nil
                             THEN StringReturn(<<>>, enc.err,
                                      {"Unmarshal", "flattenInternal", "Marshal"})
                             ELSE StringReturn(enc.bytes, Nil,
                                      {"Unmarshal", "flattenInternal", "Marshal"})
                    : r \in flattenInternal(dec.v, prefix, style, depth, preserveArray) }

FlattenString(nestedString, prefix, style, depth) ==
    flattenStringInternal(nestedString, prefix, style, depth, FALSE)

FlattenStringNoArray(nestedString, prefix, style, depth) ==
    flattenStringInternal(nestedString, prefix, style, depth, TRUE)

\* ------------------------------------------------------------- inputs
\* Map keys of the inputs: "a", "b" and "a.b" (the key the path a, b composes to in
\* DotStyle).
KeySeq == << <<"a">>, <<"b">>, <<"a", ".", "b">> >>
ScalarSet == {1, 2}

RECURSIVE ValuesOfSize(_)
RECURSIVE MapsOfSize(_, _)
RECURSIVE SeqsOfSize(_)

\* The maps whose keys are among KeySeq[from], KeySeq[from + 1], ... and whose
\* values have n nodes in all.
MapsOfSize(n, from) ==
    IF n = 0
    THEN {EmptyFn}
    ELSE UNION { UNION { { Put(rest, KeySeq[j], v)
                           : v \in ValuesOfSize(i), rest \in MapsOfSize(n - i, j + 1) }
                         : i \in 1..n }
                 : j \in from..Len(KeySeq) }

\* The slices whose elements have n nodes in all.
SeqsOfSize(n) ==
    IF n = 0
    THEN {<<>>}
    ELSE UNION { { <<v>> \o rest : v \in ValuesOfSize(i), rest \in SeqsOfSize(n - i) }
                 : i \in 1..n }

\* The values of exactly n nodes.
ValuesOfSize(n) ==
    (IF n = 1 THEN {ScalarVal(c) : c \in ScalarSet} ELSE {})
    \cup {MapVal(f) : f \in MapsOfSize(n - 1, 1)}
    \cup {SeqVal(q) : q \in SeqsOfSize(n - 1)}

\* The nested maps handed to Flatten and FlattenNoArray.
Roots == UNION { {MapVal(f) : f \in MapsOfSize(n - 1, 1)} : n \in 1..MaxNodes }

RECURSIVE TextsOfLen(_)
TextsOfLen(n) ==
    IF n = 0 THEN {<<>>}
    ELSE {s \o <<c>> : s \in TextsOfLen(n - 1), c \in TextChars}
Texts == UNION {TextsOfLen(n) : n \in 0..MaxTextLen}

Prefixes == {<<>>, <<"p">>}
Styles == {DotStyle, RailsStyle}
Depths == (-MaxNegDepth)..MaxDepthArg

\* The nodes and flat maps an in-package caller hands to flatten directly.
Nodes == ValuesOfSize(1) \cup ValuesOfSize(2)
FlatMaps == {EmptyFn, (<<"p">> :> ScalarVal(2))}

\* ------------------------------------------------------------- the state machine
\* args: the arguments of the call; op: the operation called ("none" before the
\* call); ret: what the call returned.
VARIABLES args, op, ret
vars == <<args, op, ret>>

\* kind tells which functions the arguments are for: "map" (Flatten, FlattenNoArray:
\* nested, prefix, style, depth), "text" (FlattenString, FlattenStringNoArray: text,
\* prefix, style, depth) or "node" (flatten: all but text). top, flatMap and
\* keepArrays are arguments of flatten alone.
Args(kind, nested, text, prefix, style, depth, top, flatMap, keepArrays) ==
    [kind |-> kind, nested |-> nested, text |-> text, prefix |-> prefix,
     style |-> style, depth |-> depth, top |-> top, flatMap |-> flatMap,
     keepArrays |-> keepArrays]

NoReturn == [map |-> NilMap, str |-> <<>>, err |-> Nil, calls |-> {}]

Init ==
    /\ op = "none"
    /\ ret = NoReturn
    /\ \E prefix \in Prefixes, style \in Styles, depth \in Depths :
          \/ \E nested \in Roots :
                args = Args("map", nested, <<>>, prefix, style, depth, TRUE, EmptyFn,
                            FALSE)
          \/ \E text \in Texts :
                args = Args("text", MapVal(EmptyFn), text, prefix, style, depth, TRUE,
                            EmptyFn, FALSE)
          \/ \E nested \in Nodes, top \in BOOLEAN, flatMap \in FlatMaps,
                keepArrays \in BOOLEAN :
                args = Args("node", nested, <<>>, prefix, style, depth, top, flatMap,
                            keepArrays)

CallFlatten ==
    /\ op = "none" /\ args.kind = "map"
    /\ \E r \in Flatten(args.nested, args.prefix, args.style, args.depth) :
          ret' = [NoReturn EXCEPT !.map = r.map, !.err = r.err]
    /\ op' = "Flatten"
    /\ UNCHANGED args

CallFlattenNoArray ==
    /\ op = "none" /\ args.kind = "map"
    /\ \E r \in FlattenNoArray(args.nested, args.prefix, args.style, args.depth) :
          ret' = [NoReturn EXCEPT !.map = r.map, !.err = r.err]
    /\ op' = "FlattenNoArray"
    /\ UNCHANGED args

CallFlattenString ==
    /\ op = "none" /\ args.kind = "text"
    /\ \E r \in FlattenString(args.text, args.prefix, args.style, args.depth) :
          ret' = [NoReturn EXCEPT !.str = r.str, !.err = r.err, !.calls = r.calls]
    /\ op' = "FlattenString"
    /\ UNCHANGED args

CallFlattenStringNoArray ==
    /\ op = "none" /\ args.kind = "text"
    /\ \E r \in FlattenStringNoArray(args.text, args.prefix, args.style, args.depth) :
          ret' = [NoReturn EXCEPT !.str = r.str, !.err = r.err, !.calls = r.calls]
    /\ op' = "FlattenStringNoArray"
    /\ UNCHANGED args

\* flatten called directly (it is a package-level function), on any node and with a
\* flat map that may already hold entries.
Callflatten ==
    /\ op = "none" /\ args.kind = "node"
    /\ \E o \in flatten(args.top, args.flatMap, args.nested, args.prefix, args.style,
                        args.depth, args.keepArrays) :
          ret' = [NoReturn EXCEPT !.map = GoMap(o.flatMap), !.err = o.err]
    /\ op' = "flatten"
    /\ UNCHANGED args

Next ==
    \/ CallFlatten
    \/ CallFlattenNoArray
    \/ CallFlattenString
    \/ CallFlattenStringNoArray
    \/ Callflatten

Spec == Init /\ [][Next]_vars
\* ------------------------------------------------------------- paths and keys
\* Every node of x with its path from x: the keys of the maps and the decimal 0-based
\* indices of the slices on the way (a slice is entered only when arrays are not
\* kept).
RECURSIVE PathsOf(_, _, _)
PathsOf(x, p, keep) ==
    {[path |-> p, node |-> x]}
    \cup (IF IsMap(x)
          THEN UNION {PathsOf(x.m[k], Append(p, k), keep) : k \in DOMAIN x.m}
          ELSE IF IsSlice(x) /\ ~keep
          THEN UNION {PathsOf(x.s[i], Append(p, Itoa(i - 1)), keep) : i \in 1..Len(x.s)}
          ELSE {})

\* prefix + k1 + (Before + Middle + k2 + After) + ... + (Before + Middle + kn + After)
RECURSIVE ComposeKey(_, _, _)
ComposeKey(prefix, path, style) ==
    IF path = <<>> THEN prefix
    ELSE IF Len(path) = 1 THEN prefix \o path[1]
    ELSE ComposeKey(prefix, SubSeq(path, 1, Len(path) - 1), style)
            \o style.Before \o style.Middle \o path[Len(path)] \o style.After

IsContainer(x) == IsMap(x) \/ IsSlice(x)

\* The largest number of segments of a path of x that leads to a map or a slice.
NestingDepth(x) ==
    LET lens == {Len(e.path) : e \in {q \in PathsOf(x, <<>>, FALSE) : IsContainer(q.node)}}
    IN  CHOOSE n \in lens : \A k \in lens : k <= n

IsPrefixOf(p, k) == Len(p) <= Len(k) /\ SubSeq(k, 1, Len(p)) = p

Public == {"Flatten", "FlattenNoArray"}
Keep == op = "FlattenNoArray"
Out == ret.map.m
KeyOf(path) == ComposeKey(args.prefix, path, args.style)
\* The nodes of the input the call can reach, with their paths.
InputPaths == PathsOf(args.nested, <<>>, Keep)

\* No two different paths of the input compose to the same key.
NoCollision ==
    \A e1, e2 \in InputPaths : KeyOf(e1.path) = KeyOf(e2.path) => e1.path = e2.path

\* ------------------------------------------------------------- C1
\* The scalar leaves of the input, with their paths.
Leaves == {e \in PathsOf(args.nested, <<>>, FALSE) : ~IsContainer(e.node)}

\* C1: Flatten with depth -1: the output keys are exactly the composed keys of the
\* input's scalar leaves, and each output value is the value of a leaf whose path
\* composes to its key.
FullFlattenKeys ==
    (op = "Flatten" /\ args.depth = -1) =>
        /\ ret.err = Nil /\ ~ret.map.nil
        /\ DOMAIN Out = {KeyOf(l.path) : l \in Leaves}
        /\ \A k \in DOMAIN Out : \E l \in Leaves : KeyOf(l.path) = k /\ Out[k] = l.node

\* A leaf three segments down, one of them a slice index, flattened with a prefix in
\* Rails style.
FullFlattenKeysWitness ==
    /\ op = "Flatten" /\ args.depth = -1
    /\ args.prefix = <<"p">> /\ args.style = RailsStyle
    /\ \E l \in Leaves : Len(l.path) = 3 /\ l.path[3] = <<"0">>
                         /\ KeyOf(l.path) \in DOMAIN Out

\* ------------------------------------------------------------- C4
\* C4: Flatten with depth -1 (arrays not preserved): every value of the returned map
\* is a scalar.
FullFlattenScalars ==
    (op = "Flatten" /\ args.depth = -1) =>
        \A k \in DOMAIN Out : ~IsContainer(Out[k])

\* The input holds a slice with a map in it, and the output is not empty.
FullFlattenScalarsWitness ==
    /\ op = "Flatten" /\ args.depth = -1
    /\ \E k \in DOMAIN args.nested.m :
          /\ IsSlice(args.nested.m[k])
          /\ \E i \in 1..Len(args.nested.m[k].s) : IsMap(args.nested.m[k].s[i])
    /\ DOMAIN Out # {}
\* ------------------------------------------------------------- C7
\* The whitespace of the claim: the characters \s of the pattern stands for.
WhiteSpace == {" ", "\t", "\n", "\f", "\r"}
\* The first character of s that is not whitespace is an opening brace.
FirstNonSpaceIsBrace(s) ==
    LET rest == {i \in 1..Len(s) : s[i] \notin WhiteSpace}
    IN  rest # {} /\ s[CHOOSE i \in rest : \A j \in rest : i <= j] = "{"

StringOps == {"FlattenString", "FlattenStringNoArray"}

\* C7: FlattenString / FlattenStringNoArray on a text whose first non-whitespace
\* character is not '{' (the empty text included) return ErrNotValidJsonInput and the
\* empty string without calling the decoder or the flattener; a text with whitespace
\* before its '{' passes this check.
InvalidTextRejected ==
    op \in StringOps =>
        IF FirstNonSpaceIsBrace(args.text)
        THEN ret.err # ErrNotValidJsonInput /\ "Unmarshal" \in ret.calls
        ELSE ret.err = ErrNotValidJsonInput /\ ret.str = <<>> /\ ret.calls = {}

\* A text with a '{' that is not its first non-whitespace character is rejected.
InvalidTextRejectedWitness ==
    /\ op \in StringOps
    /\ \E i \in 1..Len(args.text) : args.text[i] = "{"
    /\ ~FirstNonSpaceIsBrace(args.text)
    /\ ret.err = ErrNotValidJsonInput

\* ------------------------------------------------------------- C8
\* The returned maps of the call's operation on the call's input with depth d.
ResultsAtDepth(d) ==
    {r.map : r \in flattenInternal(args.nested, args.prefix, args.style, d, Keep)}

\* C8: every negative depth returns what depth -1 returns, and so does every
\* positive depth that is at least the input's nesting depth.
NegativeDepthUnlimited ==
    (op \in Public /\ (args.depth < 0 \/ args.depth >= NestingDepth(args.nested))
        /\ args.depth # 0) =>
        /\ ret.err = Nil
        /\ ret.map \in ResultsAtDepth(-1)
        /\ ResultsAtDepth(args.depth) = ResultsAtDepth(-1)

\* A positive depth equal to the nesting depth of an input nested at least twice
\* (one less would cut a sub-tree off), with a non-empty result.
NegativeDepthUnlimitedWitness ==
    /\ op \in Public
    /\ args.depth >= 2 /\ args.depth = NestingDepth(args.nested)
    /\ ResultsAtDepth(args.depth - 1) # ResultsAtDepth(-1)
    /\ DOMAIN Out # {}

\* ------------------------------------------------------------- C10
\* C10: flatten on a node that is neither a map nor a slice: with depth # 0 it
\* returns ErrNotValidInput and leaves the flat map as it was, and flattenInternal
\* turns that outcome into a nil map with the error; with depth = 0 it stores the
\* node under prefix and succeeds.
ScalarNodeRejected ==
    (op = "flatten" /\ ~IsContainer(args.nested)) =>
        IF args.depth # 0
        THEN /\ ret.err = ErrNotValidInput
             /\ Out = args.flatMap
             /\ flattenReturn(Outcome(Out, ret.err)) = Return(NilMap, ErrNotValidInput)
        ELSE /\ ret.err = Nil
             /\ Out = Put(args.flatMap, args.prefix, args.nested)

\* A scalar node, depth # 0, and a flat map that already holds an entry under prefix.
ScalarNodeRejectedWitness ==
    /\ op = "flatten" /\ ~IsContainer(args.nested) /\ args.depth # 0
    /\ args.prefix \in DOMAIN args.flatMap
    /\ ret.err = ErrNotValidInput
\* ------------------------------------------------------------- C3
\* C3: Flatten / FlattenNoArray with depth 0 return the one-entry map {prefix: x}.
ZeroDepthStoresUnderPrefix ==
    (op \in Public /\ args.depth = 0) =>
        ret.err = Nil /\ Out = Put(EmptyFn, args.prefix, args.nested)

\* What the code returns at depth 0: the input map itself, whatever the prefix.
ZeroDepthReturnsInput ==
    (op \in Public /\ args.depth = 0) =>
        ret.err = Nil /\ ~ret.map.nil /\ Out = args.nested.m

\* ------------------------------------------------------------- C6
\* C6: every key of the map Flatten / FlattenNoArray return begins with the prefix,
\* which is prepended once: the key is the prefix followed by the prefix-less
\* composed key of a path of the input.
PrefixPropagation ==
    op \in Public =>
        \A k \in DOMAIN Out :
            /\ IsPrefixOf(args.prefix, k)
            /\ \E e \in InputPaths :
                  e.path # <<>> /\ k = args.prefix \o ComposeKey(<<>>, e.path, args.style)

\* The same for every depth but 0.
PrefixPropagationNonZeroDepth ==
    args.depth # 0 => PrefixPropagation

\* ------------------------------------------------------------- C9
\* C9: the returned map does not depend on the order in which the keys of the
\* input's maps are visited: the call has one possible result.
TraversalOrderIndependent ==
    op \in Public =>
        Cardinality(flattenInternal(args.nested, args.prefix, args.style, args.depth,
                                    Keep)) = 1

\* The same for the inputs none of whose paths compose to the same key.
TraversalOrderIndependentNoCollision ==
    NoCollision => TraversalOrderIndependent

\* ------------------------------------------------------------- C2
\* C2: with a positive depth N, every output key is that of a path of at most N + 1
\* segments; a map (or a slice, when arrays are not preserved) at a path of exactly
\* N + 1 segments is stored as it is under its path's key; and no map is stored
\* under the key of a path of fewer than N + 1 segments.
DepthTruncation ==
    (op \in Public /\ args.depth > 0) =>
        LET N == args.depth
        IN  /\ \A k \in DOMAIN Out :
                  \E e \in InputPaths : Len(e.path) \in 1..(N + 1) /\ KeyOf(e.path) = k
            /\ \A e \in InputPaths :
                  (Len(e.path) = N + 1 /\ IsContainer(e.node)) =>
                      (KeyOf(e.path) \in DOMAIN Out /\ Out[KeyOf(e.path)] = e.node)
            /\ \A e \in InputPaths :
                  (Len(e.path) \in 1..N /\ KeyOf(e.path) \in DOMAIN Out) =>
                      ~IsMap(Out[KeyOf(e.path)])

\* The same for the inputs none of whose paths compose to the same key.
DepthTruncationNoCollision ==
    NoCollision => DepthTruncation

\* ------------------------------------------------------------- C5
\* The nodes reached through maps only, with their paths.
MapPaths == PathsOf(args.nested, <<>>, TRUE)
\* The call descends to paths of this many segments (depth # 0).
Reaches(n) == args.depth < 0 \/ n <= args.depth + 1

\* C5: FlattenNoArray stores every slice it reaches through maps as it is under its
\* path's key, and no output key has an index segment; Flatten stores each scalar
\* element of such a slice under the key of its index; without slices in the input
\* the two return the same.
ArrayPreservation ==
    (op \in Public /\ args.depth # 0) =>
        /\ Keep =>
              /\ \A e \in MapPaths :
                    (IsSlice(e.node) /\ Reaches(Len(e.path))) =>
                        (KeyOf(e.path) \in DOMAIN Out /\ Out[KeyOf(e.path)] = e.node)
              /\ \A k \in DOMAIN Out : \E e \in MapPaths : KeyOf(e.path) = k
        /\ ~Keep =>
              \A e \in MapPaths :
                  (IsSlice(e.node) /\ (args.depth < 0 \/ Len(e.path) <= args.depth)) =>
                      \A i \in 1..Len(e.node.s) :
                          ~IsContainer(e.node.s[i]) =>
                              LET k == KeyOf(Append(e.path, Itoa(i - 1)))
                              IN  k \in DOMAIN Out /\ Out[k] = e.node.s[i]
        /\ (\A e \in PathsOf(args.nested, <<>>, FALSE) : ~IsSlice(e.node)) =>
              Flatten(args.nested, args.prefix, args.style, args.depth)
                  = FlattenNoArray(args.nested, args.prefix, args.style, args.depth)

\* The same for the inputs none of whose paths compose to the same key.
ArrayPreservationNoCollision ==
    (\A e1, e2 \in PathsOf(args.nested, <<>>, FALSE) :
        KeyOf(e1.path) = KeyOf(e2.path) => e1.path = e2.path) => ArrayPreservation
\* ------------------------------------------------------------- C11
\* The call reaches a node n segments down with a remaining depth that is not 0.
ReachedBeforeCutoff(n) == args.depth < 0 \/ n <= args.depth
\* The call reaches a node n segments down with the remaining depth 0.
AtCutoff(n) == args.depth > 0 /\ n = args.depth + 1

IsEmptyContainer(x) == (IsMap(x) /\ DOMAIN x.m = {}) \/ (IsSlice(x) /\ Len(x.s) = 0)

\* The result holds no entry that comes from the node at path p: the key of p is
\* absent, or it holds the node of another path that composes to the same key.
NoEntryOf(p) ==
    KeyOf(p) \in DOMAIN Out =>
        \E e \in InputPaths :
            e.path # p /\ KeyOf(e.path) = KeyOf(p) /\ Out[KeyOf(p)] = e.node

\* C11: an empty map (in either array mode) or an empty slice (arrays not preserved)
\* reached with a remaining depth other than 0 leaves no entry in the result. With
\* FlattenNoArray an empty slice is kept under its key, and an empty container
\* exactly at the depth cutoff is stored as it is.
EmptyContainersDropped ==
    (op \in Public /\ args.depth # 0) =>
        \A e \in InputPaths :
            (Len(e.path) >= 1 /\ IsEmptyContainer(e.node)) =>
                /\ (ReachedBeforeCutoff(Len(e.path)) /\ (IsMap(e.node) \/ ~Keep)) =>
                      NoEntryOf(e.path)
                /\ (ReachedBeforeCutoff(Len(e.path)) /\ IsSlice(e.node) /\ Keep) =>
                      (KeyOf(e.path) \in DOMAIN Out /\ Out[KeyOf(e.path)] = e.node)
                /\ AtCutoff(Len(e.path)) =>
                      (KeyOf(e.path) \in DOMAIN Out /\ Out[KeyOf(e.path)] = e.node)

\* The same for the inputs none of whose paths compose to the same key.
EmptyContainersDroppedNoCollision ==
    NoCollision => EmptyContainersDropped

\* Without colliding paths an empty container that is dropped leaves its key absent:
\* Flatten({"a": {}}, "", DotStyle, -1) returns the empty map.
EmptyContainersAbsentNoCollision ==
    (op \in Public /\ args.depth # 0 /\ NoCollision) =>
        \A e \in InputPaths :
            (/\ Len(e.path) >= 1 /\ IsEmptyContainer(e.node)
             /\ ReachedBeforeCutoff(Len(e.path)) /\ (IsMap(e.node) \/ ~Keep)) =>
                KeyOf(e.path) \notin DOMAIN Out
\* ------------------------------------------------------------- C12
\* C12: Flatten and FlattenNoArray never return an error: for every input map (the
\* empty one included), prefix, style and depth they return a map and a nil error.
PublicNeverFails ==
    op \in Public => (ret.err = Nil /\ ~ret.map.nil)

\* A call with a non-zero depth on an input that holds a map, a slice and a scalar,
\* with a result that is not empty.
PublicNeverFailsWitness ==
    /\ op \in Public /\ args.depth # 0
    /\ \E e1, e2, e3 \in PathsOf(args.nested, <<>>, FALSE) :
          /\ Len(e1.path) >= 1 /\ IsMap(e1.node)
          /\ IsSlice(e2.node)
          /\ ~IsContainer(e3.node)
    /\ ret.err = Nil /\ DOMAIN Out # {}

\* The call on the empty map returns a map and no error.
PublicNeverFailsEmptyWitness ==
    op \in Public /\ args.depth # 0 /\ DOMAIN args.nested.m = {} /\ ret.err = Nil
====
